---- MODULE Spec2Model ----
(***************************************************************************)
(* The Daq flyer of pcdsdevices (src/pcdsdevices/daq.py) as a state        *)
(* machine: the controller's fields, the external acquisition endpoint it  *)
(* drives, and one action per public operation.                            *)
(*                                                                         *)
(* Python's None is the empty tuple and a present value x is <<x>>, so an  *)
(* optional field is always a sequence.  Durations are counted in tenths   *)
(* of a second (0.5 s is 5, 2 s is 20).  Every operation works on a        *)
(* "frame": a record holding the controller's fields together with what    *)
(* the invocation did so far (endpoint calls issued, log lines, the        *)
(* exception that is propagating, the return value).                       *)
(***************************************************************************)
EXTENDS Integers, Sequences, FiniteSets, TLC

VARIABLES
    control,    \* Daq._control: None, or <<h>> for the h-th pydaq.Control built
    config,     \* Daq._config: None, or <<record of the configure arguments>>
    created,    \* how many pydaq.Control objects were constructed so far
    epState,    \* the endpoint's own numeric state, what control.state() returns
    is_bluesky, \* Daq._is_bluesky
    msg_hook,   \* the msg_hook slot of the RunEngine the Daq was built with
    threads,    \* the background threads started so far, each with its Status
    blocked,    \* None, or what the calling thread is blocked on in status_wait
    last        \* the most recent step: operation, outcome, endpoint calls

vars ==
    <<control, config, created, epState, is_bluesky, msg_hook, threads, blocked,
      last>>

\* Bound on the pydaq.Control objects constructed in one behaviour.
MaxHandles == 2

\* Bound on the background threads started in one behaviour.
MaxThreads == 1

\* _check_duration: one second, in tenths of a second.
MinDuration == 10

\* BEGIN_TIMEOUT (2 s) and the poll's dt (0.1 s), in tenths of a second.
BEGIN_TIMEOUT == 20
PollDt == 1

None == <<>>
Some(x) == <<x>>

NoErr == "ok"
ConnectError == "RuntimeError: Could not connect to DAQ"
DurationError == "RuntimeError: Duration argument less than 1 is unreliable"
ModeTypeError == "TypeError: attribute name must be string"
ModeValueError == "ValueError: not a valid scan mode"
EndpointError == "endpoint call raised"

\* ------------------------------------------------------------------ enums

\* _state_enum: enum.Enum('PydaqState', '...', start=0)
StateNames == <<"Disconnected", "Connected", "Configured", "Open", "Running">>
StateNums == 0 .. (Len(StateNames) - 1)
\* The decoding with Open and Running in the wrong order.
StateName_misordered(num) ==
    <<"Disconnected", "Connected", "Configured", "Running", "Open">>[num + 1]
StateName(num) == StateNames[num + 1]
StateNum(name) == CHOOSE num \in StateNums : StateName(num) = name

\* _mode_enum: enum.Enum('ScanMode', 'on manual auto', start=0)
ModeNames == <<"on", "manual", "auto">>
ModeValue(name) == (CHOOSE i \in 1 .. Len(ModeNames) : ModeNames[i] = name) - 1
IsModeName(name) == \E i \in 1 .. Len(ModeNames) : ModeNames[i] = name

\* A value passed as `mode`: None, a str, an int or a member of _mode_enum.
MNone == [kind |-> "none", name |-> "", num |-> -1]
MStr(s) == [kind |-> "str", name |-> s, num |-> -1]
MInt(i) == [kind |-> "int", name |-> "", num |-> i]
MEnum(s) == [kind |-> "enum", name |-> s, num |-> ModeValue(s)]

StateError(state) == "RuntimeError: Cannot configure from state " \o state \o "!"

\* ------------------------------------------------------------ configuration

default_config ==
    [events |-> None, duration |-> None, use_l3t |-> FALSE, record |-> FALSE,
     controls |-> None, mode |-> MEnum("on")]

\* read_configuration() of a frame or of the controller: the stored snapshot, or
\* the defaults when there is none.
ReadConfig(cfg) == IF cfg = None THEN default_config ELSE cfg[1]

read_configuration == ReadConfig(config)

connected == control # None
configured == config # None

\* Daq.state read now, without recording the query.
StateNow == IF control # None THEN StateName(epState) ELSE "Disconnected"

\* ------------------------------------------------------------------ frames

Fresh ==
    [control |-> control, config |-> config, created |-> created,
     is_bluesky |-> is_bluesky, msg_hook |-> msg_hook, ep |-> epState,
     calls |-> <<>>, raised |-> <<>>, log |-> <<>>, connects |-> 0,
     err |-> NoErr, ret |-> None, spawn |-> <<>>, block |-> None]

\* An endpoint call: it is issued, and it raises when the endpoint makes it fail.
Call(s, name) == [s EXCEPT !.calls = Append(@, name)]
EpCall(s, name, fail) ==
    IF name \in fail
    THEN [s EXCEPT !.calls = Append(@, name), !.raised = Append(@, name)]
    ELSE [s EXCEPT !.calls = Append(@, name)]
Log(s, msg) == [s EXCEPT !.log = Append(@, msg)]
Raise(s, e) == [s EXCEPT !.err = e]

Has(seq, x) == \E i \in 1 .. Len(seq) : seq[i] = x

\* The state property on a frame: queries the endpoint only when connected.
QueryState(s) == IF s.control # None THEN Call(s, "state") ELSE s
StateOf(s) == IF s.control # None THEN StateName(s.ep) ELSE "Disconnected"

\* ------------------------------------------------------------- connection

\* connect() without the `is None` test: it builds a handle on every call.
connect_rebuilds(s, fail) ==
    LET s0 == [s EXCEPT !.connects = @ + 1]
        s1 == [EpCall(s0, "Control", fail) EXCEPT
                  !.created = @ + 1, !.control = Some(s0.created + 1)]
        s2 == EpCall(s1, "connect", fail)
    IN IF "Control" \in fail
       THEN Log([EpCall(s0, "Control", fail) EXCEPT !.control = None],
                "Failed to connect to DAQ")
       ELSE IF "connect" \in fail
            THEN Log([s2 EXCEPT !.control = None], "Failed to connect to DAQ")
            ELSE Log(s2, "Connected to DAQ")

\* connect() whose except clause does not clear the handle.
connect_keeps_handle(s, fail) ==
    LET s0 == [s EXCEPT !.connects = @ + 1] IN
    IF s0.control = None
    THEN IF "Control" \in fail
         THEN Log([EpCall(s0, "Control", fail) EXCEPT !.control = None],
                  "Failed to connect to DAQ")
         ELSE LET s1 == [EpCall(s0, "Control", fail) EXCEPT
                            !.created = @ + 1, !.control = Some(s0.created + 1)]
                  s2 == EpCall(s1, "connect", fail)
              IN IF "connect" \in fail
                 THEN Log(s2, "Failed to connect to DAQ")
                 ELSE Log(s2, "Connected to DAQ")
    ELSE Log(s0, "Connect requested, but already connected to DAQ")

\* Daq.connect(); `fail` holds the endpoint calls that raise in this invocation.
connect(s, fail) ==
    LET s0 == [s EXCEPT !.connects = @ + 1] IN
    IF s0.control = None
    THEN IF "Control" \in fail
         THEN \* the constructor raised: nothing was assigned
              Log([EpCall(s0, "Control", fail) EXCEPT !.control = None],
                  "Failed to connect to DAQ")
         ELSE LET s1 == [EpCall(s0, "Control", fail) EXCEPT
                            !.created = @ + 1, !.control = Some(s0.created + 1)]
                  s2 == EpCall(s1, "connect", fail)
              IN IF "connect" \in fail
                 THEN Log([s2 EXCEPT !.control = None], "Failed to connect to DAQ")
                 ELSE Log(s2, "Connected to DAQ")
    ELSE Log(s0, "Connect requested, but already connected to DAQ")

\* disconnect() that forgets the cached configuration.
disconnect_keeps_config(s, fail) ==
    LET s1 == IF s.control # None THEN EpCall(s, "disconnect", fail) ELSE s IN
    IF s.control # None /\ "disconnect" \in fail
    THEN Raise(s1, EndpointError)
    ELSE Log([s1 EXCEPT !.control = None], "DAQ is disconnected.")

\* Daq.disconnect()
disconnect(s, fail) ==
    LET s1 == IF s.control # None THEN EpCall(s, "disconnect", fail) ELSE s IN
    IF s.control # None /\ "disconnect" \in fail
    THEN Raise(s1, EndpointError)
    ELSE Log([s1 EXCEPT !.control = None, !.config = None], "DAQ is disconnected.")

\* check_connect that goes on to the wrapped method whatever connect() achieved.
check_connect_unchecked(s, fail) ==
    IF s.control = None
    THEN connect(Log(s, "DAQ is not connected. Attempting to connect..."), fail)
    ELSE s

\* The check_connect decorator up to the call of the wrapped method: one connect
\* attempt when not connected, then the error when still not connected.
check_connect(s, fail) ==
    LET s1 == IF s.control = None
              THEN connect(Log(s, "DAQ is not connected. Attempting to connect..."),
                           fail)
              ELSE s
    IN IF s1.control # None THEN s1 ELSE Raise(s1, ConnectError)

\* Daq.stop()
stop(s, fail) ==
    LET c == check_connect(s, fail) IN
    IF c.err # NoErr THEN c
    ELSE LET s1 == EpCall(c, "stop", fail) IN
         IF "stop" \in fail THEN Raise(s1, EndpointError) ELSE s1

\* end_run() that marks the run finished without stopping it first.
end_run_without_stop(s, fail) ==
    LET c == check_connect(s, fail) IN
    IF c.err # NoErr THEN c
    ELSE LET s2 == EpCall(c, "endrun", fail) IN
         IF "endrun" \in fail THEN Raise(s2, EndpointError) ELSE s2

\* Daq.end_run()
end_run(s, fail) ==
    LET c == check_connect(s, fail) IN
    IF c.err # NoErr THEN c
    ELSE LET s1 == stop(c, fail) IN
         IF s1.err # NoErr THEN s1
         ELSE LET s2 == EpCall(s1, "endrun", fail) IN
              IF "endrun" \in fail THEN Raise(s2, EndpointError) ELSE s2

\* ------------------------------------------------------------ configure

\* _check_duration: TRUE when it raises.
check_duration_raises(duration) == duration # None /\ duration[1] < MinDuration

\* Lines 363-369: getattr(_mode_enum, mode) takes a str only; a str that names no
\* member goes on to _mode_enum(mode), a lookup by value, and fails there.
ResolveMode(m) ==
    IF m.kind = "str"
    THEN IF IsModeName(m.name)
         THEN [err |-> NoErr, mode |-> MEnum(m.name)]
         ELSE [err |-> ModeValueError, mode |-> m]
    ELSE [err |-> ModeTypeError, mode |-> m]

\* The state test letting an open run through.
ConfigurableStates_withOpen == {"Connected", "Configured", "Open"}

\* Line 354: the states configure() may be called in.
ConfigurableStates == {"Connected", "Configured"}

\* Lines 378-380: the snapshot stored when the endpoint accepted the call.
NewConfig(a, mode) ==
    [events |-> a.events, duration |-> a.duration, record |-> a.record,
     use_l3t |-> a.use_l3t, controls |-> a.controls, mode |-> mode]

\* A failed endpoint configure that leaves the previous snapshot in place.
ConfigAfterFailure_keeps(previous) == previous

\* Line 384: what is stored when the endpoint's configure raised.
ConfigAfterFailure(previous) == None

\* configure() that checks the duration once the endpoint has taken the call.
configure_body_validates_late(s, a, fail) ==
    LET s1 == QueryState(s)
        state == StateOf(s)
        s2 == [EpCall(s1, "configure", fail) EXCEPT
                   !.config = Some(NewConfig(a, a.mode))]
    IN
    IF state \notin ConfigurableStates THEN Raise(s1, StateError(state))
    ELSE IF check_duration_raises(a.duration) THEN Raise(s2, DurationError)
    ELSE [s2 EXCEPT !.ret = Some(<<ReadConfig(s1.config), ReadConfig(s2.config)>>)]

\* The body of Daq.configure(), after check_connect.
configure_body(s, a, fail) ==
    LET s1 == QueryState(s)
        state == StateOf(s)
    IN
    IF state \notin ConfigurableStates THEN Raise(s1, StateError(state))
    ELSE IF check_duration_raises(a.duration) THEN Raise(s1, DurationError)
    ELSE
      LET old == ReadConfig(s1.config)
          r == ResolveMode(IF a.mode = MNone THEN old.mode ELSE a.mode)
      IN
      IF r.err # NoErr THEN Raise(s1, r.err)
      ELSE
        LET s2 == EpCall(s1, "configure", fail)
            s3 == IF "configure" \in fail
                  THEN Log([s2 EXCEPT !.config = ConfigAfterFailure(s1.config)],
                           "Failed to configure!")
                  ELSE Log([s2 EXCEPT !.config = Some(NewConfig(a, r.mode))],
                           "Daq configured")
        IN [s3 EXCEPT !.ret = Some(<<old, ReadConfig(s3.config)>>)]

\* Daq.configure()
configure(s, a, fail) ==
    LET c == check_connect(s, fail) IN
    IF c.err # NoErr THEN c ELSE configure_body(c, a, fail)

\* ------------------------------------------------------- kickoff and wait

\* The arguments kickoff() and begin() take, all None by default, and the defaults
\* of configure()'s signature.
NoOverrides ==
    [events |-> None, duration |-> None, use_l3t |-> None, controls |-> None]
ConfigureDefaults ==
    [events |-> None, duration |-> None, record |-> FALSE, use_l3t |-> FALSE,
     controls |-> None, mode |-> MNone]

\* _ctrl_arg: the (name, value) pairs of a {name: device} mapping; the mapping is
\* the set of its names and every device has a value.
ctrl_arg(ctrl_dict) == {<<key, "value">> : key \in ctrl_dict}

\* _begin_args letting the stored event count win over the call's arguments.
begin_args_config_first(cfg, is_cfgd, bluesky, state, k) ==
    LET openOnly == bluesky /\ cfg.mode # MEnum("on") /\ state # "Open"
        events0 == IF openOnly THEN Some(1) ELSE k.events
        duration0 == IF openOnly THEN None ELSE k.duration
        use_l3t0 == IF openOnly THEN Some(FALSE) ELSE k.use_l3t
        stored == cfg.events # None \/ (events0 = None /\ duration0 = None)
        events1 == IF stored THEN cfg.events ELSE events0
        duration1 == IF stored THEN cfg.duration ELSE duration0
        use_l3t1 == IF use_l3t0 = None /\ is_cfgd THEN Some(cfg.use_l3t)
                    ELSE use_l3t0
        controls1 == IF k.controls = None THEN cfg.controls ELSE k.controls
    IN [events |-> IF events1 # None
                   THEN (IF use_l3t1 = Some(TRUE) THEN None ELSE events1)
                   ELSE IF duration1 # None THEN None ELSE Some(0),
        l3t_events |-> IF events1 # None /\ use_l3t1 = Some(TRUE)
                       THEN events1 ELSE None,
        duration |-> IF events1 = None /\ duration1 # None
                     THEN Some(<<duration1[1] \div 10,
                                 (duration1[1] % 10) * 100000000>>)
                     ELSE None,
        controls |-> IF controls1 = None THEN None ELSE Some(ctrl_arg(controls1))]

\* _begin_args taking the special case whatever the endpoint's state.
begin_args_open_run_always(cfg, is_cfgd, bluesky, state, k) ==
    LET openOnly == bluesky /\ cfg.mode # MEnum("on")
        events0 == IF openOnly THEN Some(1) ELSE k.events
        duration0 == IF openOnly THEN None ELSE k.duration
        use_l3t0 == IF openOnly THEN Some(FALSE) ELSE k.use_l3t
        stored == events0 = None /\ duration0 = None
        events1 == IF stored THEN cfg.events ELSE events0
        duration1 == IF stored THEN cfg.duration ELSE duration0
        use_l3t1 == IF use_l3t0 = None /\ is_cfgd THEN Some(cfg.use_l3t)
                    ELSE use_l3t0
        controls1 == IF k.controls = None THEN cfg.controls ELSE k.controls
    IN [events |-> IF events1 # None
                   THEN (IF use_l3t1 = Some(TRUE) THEN None ELSE events1)
                   ELSE IF duration1 # None THEN None ELSE Some(0),
        l3t_events |-> IF events1 # None /\ use_l3t1 = Some(TRUE)
                       THEN events1 ELSE None,
        duration |-> IF events1 = None /\ duration1 # None
                     THEN Some(<<duration1[1] \div 10,
                                 (duration1[1] % 10) * 100000000>>)
                     ELSE None,
        controls |-> IF controls1 = None THEN None ELSE Some(ctrl_arg(controls1))]

\* _begin_args: the keyword arguments of control.begin(), None for a key that is
\* not passed.  cfg is read_configuration(), is_cfgd is self.configured, state is
\* self.state and k holds the arguments of kickoff().
begin_args(cfg, is_cfgd, bluesky, state, k) ==
    LET openOnly == bluesky /\ cfg.mode # MEnum("on") /\ state # "Open"
        events0 == IF openOnly THEN Some(1) ELSE k.events
        duration0 == IF openOnly THEN None ELSE k.duration
        use_l3t0 == IF openOnly THEN Some(FALSE) ELSE k.use_l3t
        stored == events0 = None /\ duration0 = None
        events1 == IF stored THEN cfg.events ELSE events0
        duration1 == IF stored THEN cfg.duration ELSE duration0
        use_l3t1 == IF use_l3t0 = None /\ is_cfgd THEN Some(cfg.use_l3t)
                    ELSE use_l3t0
        controls1 == IF k.controls = None THEN cfg.controls ELSE k.controls
    IN [events |-> IF events1 # None
                   THEN (IF use_l3t1 = Some(TRUE) THEN None ELSE events1)
                   ELSE IF duration1 # None THEN None ELSE Some(0),
        l3t_events |-> IF events1 # None /\ use_l3t1 = Some(TRUE)
                       THEN events1 ELSE None,
        duration |-> IF events1 = None /\ duration1 # None
                     THEN Some(<<duration1[1] \div 10,
                                 (duration1[1] % 10) * 100000000>>)
                     ELSE None,
        controls |-> IF controls1 = None THEN None ELSE Some(ctrl_arg(controls1))]

NoBeginArgs ==
    [events |-> None, l3t_events |-> None, duration |-> None, controls |-> None]

\* A background thread with the Status made for it: start_thread of kickoff()
\* ("begin") or finish_thread of _get_end_status() ("end"), the handle it was
\* given, where it is, and for start_thread the arguments of kickoff(), the
\* keyword arguments it computed and what is left of the poll's timeout.
BeginThread(ctl, k) ==
    [kind |-> "begin", ctl |-> ctl, status |-> "pending", pc |-> "start",
     k |-> k, bargs |-> NoBeginArgs, tmo |-> BEGIN_TIMEOUT]
EndThread(ctl) ==
    [kind |-> "end", ctl |-> ctl, status |-> "pending", pc |-> "start",
     k |-> NoOverrides, bargs |-> NoBeginArgs, tmo |-> BEGIN_TIMEOUT]

\* Starts a thread; the Status returned is that of the thread's index.
Start(s, thread) ==
    [s EXCEPT !.spawn = Append(@, thread),
              !.ret = Some(Len(threads) + Len(s.spawn) + 1)]

\* Daq.kickoff()
kickoff(s, k, fail) ==
    LET c == check_connect(s, fail) IN
    IF c.err # NoErr THEN c
    ELSE IF check_duration_raises(k.duration) THEN Raise(c, DurationError)
    ELSE LET s1 == IF c.config = None
                   THEN [configure(c, ConfigureDefaults, fail) EXCEPT !.ret = None]
                   ELSE c
         IN IF s1.err # NoErr THEN s1
            ELSE Start(s1, BeginThread(s1.control, k))

\* _get_end_status()
get_end_status(s) == Start(s, EndThread(s.control))

\* Daq.wait() up to status_wait(), in which the calling thread blocks.
wait(s, timeout, fail) ==
    LET c == check_connect(s, fail) IN
    IF c.err # NoErr THEN c
    ELSE LET s1 == QueryState(c) IN
         IF StateOf(c) = "Running"
         THEN LET s2 == get_end_status(s1) IN
              [s2 EXCEPT !.block = Some([th |-> s2.ret[1], timeout |-> timeout]),
                         !.ret = None]
         ELSE s1

\* Daq.begin(wait=False): kickoff(), then status_wait() on its Status for at most
\* BEGIN_TIMEOUT, in which the calling thread blocks.
begin(s, k, fail) ==
    LET s1 == kickoff(Log(s, "Daq.begin()"), k, fail) IN
    IF s1.err # NoErr THEN s1
    ELSE [s1 EXCEPT !.block = Some([th |-> s1.ret[1],
                                    timeout |-> Some(BEGIN_TIMEOUT)]),
                    !.ret = None]

\* pause() wrapped in check_connect, as stop() is.
pause_check_connect(s, fail) ==
    LET c == check_connect(s, fail) IN
    IF c.err # NoErr THEN c
    ELSE LET s1 == QueryState(Log(c, "Daq.pause()")) IN
         IF StateOf(s1) = "Running" THEN stop(s1, fail) ELSE s1

\* Daq.pause() and Daq.resume().  Their debug lines and that of begin() are kept
\* in the log: they tell which of them ran, and in which order.
pause(s, fail) ==
    LET s1 == QueryState(Log(s, "Daq.pause()")) IN
    IF StateOf(s1) = "Running" THEN stop(s1, fail) ELSE s1

resume(s, fail) ==
    LET s1 == QueryState(Log(s, "Daq.resume()")) IN
    IF StateOf(s1) = "Open" THEN begin(s1, NoOverrides, fail) ELSE s1

\* ------------------------------------------------------------ flyer and plans

AnyTypeError == "TypeError: any() takes exactly one argument (2 given)"
NotIterableError == "TypeError: 'functools.partial' object is not iterable"
NotAttachedError == "RuntimeError: Daq is not attached to the RunEngine!"
RunForeverError == "RuntimeError: Daq is configured to run forever"
NoneTypeError == "AttributeError: 'NoneType' object has no attribute"

\* Python's truth value of an optional number.
Truthy(x) == x # None /\ x[1] # 0

\* The builtin any() called with the positional arguments args: it takes exactly one
\* iterable, and raises TypeError when called with any other number of arguments.
builtin_any(args) ==
    IF Len(args) = 1
    THEN [err |-> NoErr, val |-> \E i \in 1 .. Len(args[1]) : Truthy(args[1][i])]
    ELSE [err |-> AnyTypeError, val |-> FALSE]

\* Lines 253, 591 and 645: any(config['events'], config['duration']).
any_events_duration(cfg) == builtin_any(<<cfg.events, cfg.duration>>)

\* Daq.complete(): it is not wrapped in check_connect.
complete(s, fail) ==
    LET s1 == get_end_status(s)
        a == any_events_duration(ReadConfig(s1.config))
    IN IF a.err # NoErr THEN [Raise(s1, a.err) EXCEPT !.ret = None]
       ELSE IF ~a.val
            THEN LET s2 == stop(s1, fail) IN
                 IF s2.err # NoErr THEN [s2 EXCEPT !.ret = None] ELSE s2
            ELSE s1

\* Daq.collect(), iterated to its end: the events it yielded are returned.
collect(s, fail) ==
    LET s1 == end_run(s, fail) IN
    IF s1.err # NoErr THEN s1 ELSE [s1 EXCEPT !.ret = Some(<<>>)]

\* Daq.describe_collect(): the empty mapping.
describe_collect(s) == [s EXCEPT !.ret = Some(<<>>)]

\* Line 577: the commands the interpreter looks at.
cmds == {"open_run", "close_run", "create", "save"}

\* The interpreter keeping the flag only while the mode is 'on'.
interpret_message_flag_in_on_only(s, command, after, fail) ==
    IF ReadConfig(s.config).mode = MEnum("on") /\ command = "open_run"
    THEN [s EXCEPT !.is_bluesky = TRUE]
    ELSE IF ReadConfig(s.config).mode = MEnum("on") /\ command = "close_run"
         THEN [s EXCEPT !.is_bluesky = FALSE]
         ELSE s

\* The interpreter pausing on create and save whatever the stored mode.
interpret_message_every_mode(s, command, after, fail) ==
    LET s1 == IF command = "open_run" THEN [s EXCEPT !.is_bluesky = TRUE]
              ELSE IF command = "close_run" THEN [s EXCEPT !.is_bluesky = FALSE]
              ELSE s
    IN IF command \in {"create", "save"} THEN pause(s1, fail) ELSE s1

\* Daq._interpret_message(msg), command being msg.command.  pause() and resume()
\* each read the state; `after` is what the endpoint reports to resume() once
\* pause() has stopped it.
interpret_message(s, command, after, fail) ==
    IF command \notin cmds THEN s
    ELSE
      LET cfg == ReadConfig(s.config)
          s1 == IF command = "open_run" THEN [s EXCEPT !.is_bluesky = TRUE]
                ELSE IF command = "close_run" THEN [s EXCEPT !.is_bluesky = FALSE]
                ELSE s
      IN
      IF cfg.mode # MEnum("on") THEN s1
      ELSE IF command = "create"
           THEN LET p == pause(s1, fail) IN
                IF p.err # NoErr THEN p
                ELSE resume([p EXCEPT !.ep = IF Has(p.calls, "stop") THEN after
                                             ELSE @],
                            fail)
      ELSE IF command = "save"
           THEN LET a == any_events_duration(cfg) IN
                IF a.err # NoErr THEN Raise(s1, a.err)
                ELSE IF a.val THEN wait(s1, None, fail) ELSE pause(s1, fail)
      ELSE s1

\* What `yield from` is given: a generator of messages, or the functools.partial
\* object of line 622, which was never called and is no iterable.
Generator(msgs) == [kind |-> "generator", msgs |-> msgs]
Partial(msgs) == [kind |-> "partial", msgs |-> msgs]

yield_from(x) ==
    IF x.kind = "generator" THEN [err |-> NoErr, msgs |-> x.msgs]
    ELSE [err |-> NotIterableError, msgs |-> <<>>]

SetHook(s, hook) ==
    Log([s EXCEPT !.msg_hook = hook],
        IF hook = None THEN "msg_hook = None" ELSE "msg_hook = " \o hook[1])

\* daq_wrapper whose except clause re-raises without taking the hook out.
daq_wrapper_hook_left(s, plan, how) ==
    IF how = "close" THEN [s EXCEPT !.ret = Some(<<>>)]
    ELSE
      LET s1 == SetHook(s, Some("_interpret_message"))
          y == yield_from(Partial(plan))
      IN IF y.err # NoErr
         THEN [Raise(s1, y.err) EXCEPT !.ret = Some(y.msgs)]
         ELSE [SetHook(s1, None) EXCEPT !.ret = Some(y.msgs)]

\* daq_wrapper(plan), the generator run to its end with next() (how = "next") or
\* closed before its first next() (how = "close"), in which case its body never
\* runs.  What it returns here is the messages it emitted.
daq_wrapper(s, plan, how) ==
    IF how = "close" THEN [s EXCEPT !.ret = Some(<<>>)]
    ELSE
      LET s1 == SetHook(s, Some("_interpret_message"))
          y == yield_from(Partial(plan))
      IN IF y.err # NoErr
         THEN [Raise(SetHook(s1, None), y.err) EXCEPT !.ret = Some(y.msgs)]
         ELSE [SetHook(s1, None) EXCEPT !.ret = Some(y.msgs)]

\* calib_cycle(), the generator run to its end; what it returns here is the
\* messages it emitted.
calib_cycle(s) ==
    IF ~s.is_bluesky THEN [Raise(s, NotAttachedError) EXCEPT !.ret = Some(<<>>)]
    ELSE LET a == any_events_duration(ReadConfig(s.config)) IN
         IF a.err # NoErr THEN [Raise(s, a.err) EXCEPT !.ret = Some(<<>>)]
         ELSE IF ~a.val
              THEN [Raise(s, RunForeverError) EXCEPT !.ret = Some(<<>>)]
              ELSE [s EXCEPT !.ret = Some(<<"kickoff", "complete">>)]

\* ------------------------------------------------ teardown and description

\* Daq.__del__(): the two statements follow one another with no try around the
\* first, so an exception of end_run() ends it there.
__del__(s, fail) ==
    LET s1 == QueryState(s)
        state == StateOf(s)
        s2 == IF state \in {"Open", "Running"} THEN end_run(s1, fail) ELSE s1
    IN IF s2.err # NoErr THEN s2 ELSE disconnect(s2, fail)

KeyError == "KeyError: 'control'"
LenTypeError == "TypeError: object of type 'NoneType' has no len()"

\* dict.__getitem__: the value under a key of the mapping, KeyError without it.
GetItem(mapping, key) ==
    IF key \in DOMAIN mapping
    THEN [err |-> NoErr, val |-> mapping[key]]
    ELSE [err |-> KeyError, val |-> None]

\* Line 505: [len(config['control']), 2]; the controls are a set of names or None.
controls_shape(cfg) ==
    LET item == GetItem(cfg, "control") IN
    IF item.err # NoErr THEN [err |-> item.err, val |-> None]
    ELSE IF item.val = None THEN [err |-> LenTypeError, val |-> None]
    ELSE [err |-> NoErr, val |-> Some(<<Cardinality(item.val[1]), 2>>)]

\* Line 506: the exceptions the except clause names, RuntimeError and
\* AttributeError.
DescribeCatches == {ConnectError, DurationError, NoneTypeError}

Field(source, dtype, shape) ==
    [source |-> source, dtype |-> dtype, shape |-> shape]

\* Daq.describe_configuration()
describe_configuration(s) ==
    LET s1 == Log(s, "Daq.describe_configuration()")
        shape == controls_shape(ReadConfig(s1.config))
    IN
    IF shape.err # NoErr /\ shape.err \notin DescribeCatches
    THEN Raise(s1, shape.err)
    ELSE [s1 EXCEPT !.ret = Some(
            [events |-> Field("daq_events_in_run", "number", None),
             duration |-> Field("daq_run_duration", "number", None),
             use_l3t |-> Field("daq_use_l3trigger", "number", None),
             record |-> Field("daq_record_run", "number", None),
             controls |-> Field("daq_control_vars", "array",
                                IF shape.err # NoErr THEN None ELSE shape.val),
             always_on |-> Field("daq_always_on", "number", None)])]

\* --------------------------------------------------------------- inputs


EventsVals == {None, Some(100)}
\* 2 s, and 0.5 s, which _check_duration refuses
LongDuration == Some(20)
ShortDuration == Some(5)
\* The flags and the mode of a call vary together, each flag and each mode name
\* occurring.
FlagVals ==
    {[record |-> FALSE, use_l3t |-> FALSE, controls |-> None, mode |-> MStr("on")],
     [record |-> TRUE, use_l3t |-> FALSE, controls |-> Some({"motor"}),
      mode |-> MStr("manual")],
     [record |-> FALSE, use_l3t |-> TRUE, controls |-> None, mode |-> MStr("auto")]}
\* The modes that are no str (omitted, the ints 0 to 3, the enum members) and a str
\* that names no mode.
OtherModes ==
    {MNone, MStr("bogus")} \cup {MInt(i) : i \in 0 .. 3}
    \cup {MEnum(ModeNames[i]) : i \in 1 .. Len(ModeNames)}
ConfigureArgs ==
    {[events |-> e, duration |-> d, record |-> f.record, use_l3t |-> f.use_l3t,
      controls |-> f.controls, mode |-> f.mode] :
        e \in EventsVals, d \in {None, LongDuration}, f \in FlagVals}
    \cup {[events |-> e, duration |-> ShortDuration, record |-> TRUE,
           use_l3t |-> FALSE, controls |-> None, mode |-> m] :
            e \in EventsVals, m \in {MStr("on"), MNone}}
    \cup {[events |-> None, duration |-> d, record |-> TRUE, use_l3t |-> FALSE,
           controls |-> None, mode |-> m] :
            d \in {None, LongDuration}, m \in OtherModes}

\* kickoff(): no argument, 0.5 s, 5 s, and 7 events counted after the L3 trigger.
KickoffArgs ==
    {NoOverrides,
     [NoOverrides EXCEPT !.duration = ShortDuration],
     [NoOverrides EXCEPT !.duration = Some(50)],
     [NoOverrides EXCEPT !.events = Some(7), !.use_l3t = Some(TRUE)]}
\* wait(): no timeout, or one.
TimeoutVals == {None, Some(10)}
\* configure() in the behaviours with threads: a bounded and an unbounded
\* configuration, a refused duration and the omitted mode.
FewConfigureArgs ==
    {[ConfigureDefaults EXCEPT !.events = Some(100), !.mode = MStr("on")],
     [ConfigureDefaults EXCEPT !.mode = MStr("manual"), !.use_l3t = TRUE],
     [ConfigureDefaults EXCEPT !.duration = ShortDuration, !.mode = MStr("on")],
     ConfigureDefaults}

\* configure(events=100) in each of the three modes.
ModeConfigureArgs ==
    {[ConfigureDefaults EXCEPT !.events = Some(100), !.mode = MStr(ModeNames[i])] :
        i \in 1 .. Len(ModeNames)}

\* configure(events=100, mode='on') alone.
OneConfigureArg ==
    {[ConfigureDefaults EXCEPT !.events = Some(100), !.mode = MStr("on")]}

\* The endpoint calls that raise in one invocation.  The first call that raises
\* either propagates or is caught by code that makes no further endpoint call, so
\* no invocation sees two of them raise.
Fails(callNames) == {{}} \cup {{c} : c \in callNames}

ConnectCalls == {"Control", "connect"}

\* --------------------------------------------------------------- actions

\* The record of a step: who ran what with which arguments, the endpoint calls it
\* issued and those that raised, its log lines, how many times it called connect(),
\* the exception it raised, what it returned, and what held when it started.
Invocation(op, th, args, s) ==
    [op |-> op, th |-> th, args |-> args, err |-> s.err, calls |-> s.calls,
     raised |-> s.raised, log |-> s.log, connects |-> s.connects, ret |-> s.ret,
     pre |-> [connected |-> connected, configured |-> configured,
              state |-> StateNow]]

\* What is recorded as holding before a step that is no call of the controller.
NoPre == [connected |-> FALSE, configured |-> FALSE, state |-> "Disconnected"]

\* What a step of the calling thread leaves in the variables: the controller's
\* fields of the frame, the threads it started, and the record of the invocation.
Commit(op, args, s) ==
    /\ control' = s.control
    /\ config' = s.config
    /\ created' = s.created
    /\ threads' = threads \o s.spawn
    /\ blocked' = s.block
    /\ last' = Invocation(op, 0, args, s)
    /\ is_bluesky' = s.is_bluesky
    /\ msg_hook' = s.msg_hook
    /\ epState' = s.ep

\* The calling thread is free to start an operation.
Idle == blocked = None

\* A connect attempt builds a handle: the bound on them is in the guard.
MayConnect == control = None => created < MaxHandles

\* kickoff() and wait() start a thread: the bound on them is in the guard.
MaySpawn == Len(threads) < MaxThreads

Connect ==
    \E fail \in Fails(ConnectCalls) :
        /\ Idle /\ MayConnect
        /\ Commit("connect", None, connect(Fresh, fail))

Disconnect ==
    \E fail \in Fails({"disconnect"}) :
        /\ Idle
        /\ Commit("disconnect", None, disconnect(Fresh, fail))

Stop ==
    \E fail \in Fails(ConnectCalls \cup {"stop"}) :
        /\ Idle /\ MayConnect
        /\ Commit("stop", None, stop(Fresh, fail))

EndRun ==
    \E fail \in Fails(ConnectCalls \cup {"stop", "endrun"}) :
        /\ Idle /\ MayConnect
        /\ Commit("end_run", None, end_run(Fresh, fail))

ConfigureWith(args) ==
    \E a \in args, fail \in Fails(ConnectCalls \cup {"configure"}) :
        /\ Idle /\ MayConnect
        /\ Commit("configure", Some(a), configure(Fresh, a, fail))

Configure == ConfigureWith(ConfigureArgs)

\* A read of the state property.
ReadState ==
    /\ Idle
    /\ Commit("state", None,
              [QueryState(Fresh) EXCEPT !.ret = Some(StateOf(Fresh))])

\* The endpoint is an external process: an operator or another client moves it.
EndpointChange ==
    \E n \in StateNums :
        /\ n # epState
        /\ epState' = n
        /\ last' = [Invocation("external", 0, None, Fresh) EXCEPT
                        !.pre = NoPre]
        /\ UNCHANGED <<control, config, created, is_bluesky, msg_hook, threads, blocked>>

Init ==
    /\ control = None
    /\ config = None
    /\ created = 0
    /\ epState \in StateNums
    /\ is_bluesky = FALSE
    /\ msg_hook = None
    /\ threads = <<>>
    /\ blocked = None
    /\ last = [op |-> "init", th |-> 0, args |-> None, err |-> NoErr,
               calls |-> <<>>, raised |-> <<>>, log |-> <<>>, connects |-> 0,
               ret |-> None, pre |-> NoPre]

KickoffWith(args) ==
    \E k \in args, fail \in Fails(ConnectCalls \cup {"configure"}) :
        /\ Idle /\ MayConnect /\ MaySpawn
        /\ Commit("kickoff", Some(k), kickoff(Fresh, k, fail))

Kickoff == KickoffWith(KickoffArgs)

\* Every thread started so far has ended.
NoLiveThread ==
    \A i \in 1 .. Len(threads) : threads[i].pc \in {"done", "dead"}

Wait ==
    \E timeout \in TimeoutVals, fail \in Fails(ConnectCalls) :
        /\ Idle /\ MayConnect /\ MaySpawn
        /\ Commit("wait", Some(timeout), wait(Fresh, timeout, fail))

\* status_wait() returns in wait(): the Status is done.  It raises when the Status
\* reports failure.
WaitReturn ==
    /\ blocked # None
    /\ threads[blocked[1].th].status # "pending"
    /\ blocked' = None
    /\ last' = Invocation("wait_return", 0, None,
                          IF threads[blocked[1].th].status = "success"
                          THEN Fresh
                          ELSE Raise(Fresh, "RuntimeError: status failed"))
    /\ UNCHANGED <<control, config, created, epState, is_bluesky, msg_hook, threads>>

\* status_wait() raises in wait(): the timeout passed with the Status pending.
WaitTimeout ==
    /\ blocked # None
    /\ blocked[1].timeout # None
    /\ threads[blocked[1].th].status = "pending"
    /\ blocked' = None
    /\ last' = Invocation("wait_return", 0, None, Raise(Fresh, "TimeoutError"))
    /\ UNCHANGED <<control, config, created, epState, is_bluesky, msg_hook, threads>>

\* A step of a thread that writes the record of the first thread.
ThreadStep_first(op, i, thread, s) ==
    /\ threads' = [threads EXCEPT ![1] = thread]
    /\ last' = Invocation(op, i, None, s)
    /\ UNCHANGED <<control, config, created, epState, is_bluesky, msg_hook, blocked>>

\* A step of thread i: its record changes, and what it called is recorded.
ThreadStep(op, i, thread, s) ==
    /\ threads' = [threads EXCEPT ![i] = thread]
    /\ last' = Invocation(op, i, None, s)
    /\ UNCHANGED <<control, config, created, epState, is_bluesky, msg_hook, blocked>>

\* The readiness test taking a running endpoint for a ready one.
ReadyStates_withRunning == {"Configured", "Open", "Running"}

\* Lines 219 and 223: the states in which control.begin() may be called.
ReadyStates == {"Configured", "Open"}

\* start_thread, line 213: the keyword arguments of control.begin().
BeginThreadArgs ==
    \E i \in 1 .. Len(threads) :
        /\ threads[i].kind = "begin" /\ threads[i].pc = "start"
        /\ ThreadStep("start_thread", i,
                      [threads[i] EXCEPT
                          !.pc = "poll",
                          !.bargs = begin_args(read_configuration, configured,
                                               is_bluesky, StateNow, threads[i].k)],
                      QueryState(Fresh))

\* start_thread, lines 215-222: the poll, which sleeps nowhere and is taken in one
\* step.  It ends at the first turn that finds the endpoint ready, or when tmo,
\* which starts at BEGIN_TIMEOUT and loses dt at each other turn, is used up.
PollTurns == BEGIN_TIMEOUT \div PollDt

BeginThreadPoll ==
    \E i \in 1 .. Len(threads) :
        /\ threads[i].kind = "begin" /\ threads[i].pc = "poll"
        /\ ThreadStep("start_thread", i,
                      [threads[i] EXCEPT
                          !.pc = "check",
                          !.tmo = IF StateNow \in ReadyStates THEN @
                                  ELSE @ - PollTurns * PollDt],
                      IF StateNow \in ReadyStates \/ control = None
                      THEN QueryState(Fresh)
                      ELSE [Fresh EXCEPT
                               !.calls = [n \in 1 .. PollTurns |-> "state"]])

\* A thread that marks its Status as succeeded however it ends.
Ended_succeeds(thread, pc, status) ==
    [thread EXCEPT !.pc = pc, !.status = "success", !.k = NoOverrides,
                   !.bargs = NoBeginArgs, !.tmo = BEGIN_TIMEOUT]

\* A thread that ended keeps its Status and the handle it was given.
Ended(thread, pc, status) ==
    [thread EXCEPT !.pc = pc, !.status = status, !.k = NoOverrides,
                   !.bargs = NoBeginArgs, !.tmo = BEGIN_TIMEOUT]

\* start_thread, line 223 and lines 227-229: the test after the poll.
BeginThreadCheck ==
    \E i \in 1 .. Len(threads) :
        /\ threads[i].kind = "begin" /\ threads[i].pc = "check"
        /\ ThreadStep("start_thread", i,
                      IF StateNow \in ReadyStates
                      THEN [threads[i] EXCEPT !.pc = "begin"]
                      ELSE Ended(threads[i], "done", "failure"),
                      QueryState(Fresh))

\* start_thread, lines 224-226: control.begin() on the handle the thread was
\* given; when it raises the thread ends there, its Status pending.
BeginThreadCall ==
    \E i \in 1 .. Len(threads), fail \in Fails({"begin"}) :
        /\ threads[i].kind = "begin" /\ threads[i].pc = "begin"
        /\ threads' = [threads EXCEPT
                          ![i] = IF "begin" \in fail
                                 THEN Ended(@, "dead", "pending")
                                 ELSE Ended(@, "done", "success")]
        /\ last' = Invocation("start_thread", i, Some(threads[i].bargs),
                              IF "begin" \in fail
                              THEN Raise(EpCall(Fresh, "begin", fail), EndpointError)
                              ELSE EpCall(Fresh, "begin", fail))
        /\ UNCHANGED <<control, config, created, epState, is_bluesky, msg_hook, blocked>>

\* finish_thread: control.end() returns or raises RuntimeError, and the Status is
\* marked; another exception ends the thread, its Status pending.  Given no
\* handle (complete() on a disconnected Daq), control.end is an AttributeError.
EndOutcomes == {"returns", "RuntimeError", "Exception"}

FinishThread ==
    \E i \in 1 .. Len(threads), outcome \in EndOutcomes :
        /\ threads[i].kind = "end" /\ threads[i].pc = "start"
        /\ threads[i].ctl = None => outcome = "Exception"
        /\ ThreadStep("finish_thread", i,
                      IF outcome = "Exception"
                      THEN Ended(threads[i], "dead", "pending")
                      ELSE Ended(threads[i], "done", "success"),
                      IF threads[i].ctl = None THEN Raise(Fresh, NoneTypeError)
                      ELSE IF outcome = "returns"
                      THEN EpCall(Fresh, "end", {})
                      ELSE Raise(EpCall(Fresh, "end", {"end"}),
                                 IF outcome = "Exception" THEN EndpointError
                                 ELSE NoErr))

\* The commands of the messages handed to the interpreter: the four it looks at
\* and one it does not.
MsgCommands == cmds \cup {"read"}

InterpretWith(commands) ==
    \E command \in commands, after \in {epState, StateNum("Open")},
       fail \in Fails({"stop"}) :
        LET s == interpret_message(Fresh, command, after, fail) IN
        /\ Idle
        /\ s.spawn # <<>> => MaySpawn
        /\ Commit("interpret_message", Some(command), s)

InterpretMessage == InterpretWith(MsgCommands)

\* The messages that open and close a run.
RunCommands == {"open_run", "close_run"}

Complete ==
    \E fail \in Fails({"stop"}) :
        /\ Idle /\ MaySpawn
        /\ Commit("complete", None, complete(Fresh, fail))

Collect ==
    \E fail \in Fails(ConnectCalls \cup {"stop", "endrun"}) :
        /\ Idle /\ MayConnect
        /\ Commit("collect", None, collect(Fresh, fail))

DescribeCollect ==
    /\ Idle
    /\ Commit("describe_collect", None, describe_collect(Fresh))

\* The plans handed to daq_wrapper, as the commands of their messages.
Plans == {<<>>, <<"open_run", "create", "save", "close_run">>}

DaqWrapper ==
    \E plan \in Plans, how \in {"next", "close"} :
        /\ Idle
        /\ Commit("daq_wrapper", Some([plan |-> plan, how |-> how]),
                  daq_wrapper(Fresh, plan, how))

\* The object is torn down by hand (del on the last reference, or a direct call of
\* __del__); what the teardown left of it is what the variables hold afterwards.
Del ==
    \E fail \in Fails({"stop", "endrun", "disconnect"}) :
        /\ Idle
        /\ Commit("__del__", None, __del__(Fresh, fail))

DescribeConfiguration ==
    /\ Idle
    /\ Commit("describe_configuration", None, describe_configuration(Fresh))

CalibCycle ==
    /\ Idle
    /\ Commit("calib_cycle", None, calib_cycle(Fresh))

\* kickoff(), complete() and wait() where a begin thread and an end thread run
\* side by side: there is room for one thread more than MaxThreads, and a thread
\* is started once the threads of its kind have ended.
MaySpawnKind(kind) ==
    /\ Len(threads) <= MaxThreads
    /\ \A i \in 1 .. Len(threads) :
          threads[i].kind = kind => threads[i].pc \in {"done", "dead"}

KickoffBeside ==
    \E fail \in Fails(ConnectCalls \cup {"configure"}) :
        /\ Idle /\ MayConnect /\ MaySpawnKind("begin")
        /\ Commit("kickoff", Some(NoOverrides), kickoff(Fresh, NoOverrides, fail))

CompleteBeside ==
    \E fail \in Fails({"stop"}) :
        /\ Idle /\ MaySpawnKind("end")
        /\ Commit("complete", None, complete(Fresh, fail))

WaitBeside ==
    \E timeout \in TimeoutVals, fail \in Fails(ConnectCalls) :
        /\ Idle /\ MayConnect /\ MaySpawnKind("end")
        /\ Commit("wait", Some(timeout), wait(Fresh, timeout, fail))

Pause ==
    \E fail \in Fails({"stop"}) :
        /\ Idle
        /\ Commit("pause", None, pause(Fresh, fail))

\* resume() goes through begin(): from Open it starts a thread and blocks on its
\* Status.
Resume ==
    \E fail \in Fails({"configure"}) :
        LET s == resume(Fresh, fail) IN
        /\ Idle
        /\ s.spawn # <<>> => MaySpawn
        /\ Commit("resume", None, s)

\* begin() with no argument; the caller blocks on the Status of the thread.
Begin ==
    \E fail \in Fails(ConnectCalls \cup {"configure"}) :
        /\ Idle /\ MayConnect /\ MaySpawn
        /\ Commit("begin", Some(NoOverrides), begin(Fresh, NoOverrides, fail))

\* The operations that start no thread, with every configure argument.
NextSync ==
    \/ Connect
    \/ Disconnect
    \/ Stop
    \/ EndRun
    \/ Configure
    \/ ReadState
    \/ Del
    \/ DescribeConfiguration
    \/ EndpointChange

SpecSync == Init /\ [][NextSync]_vars

\* The caller's side of the object: every operation a caller invokes, the state
\* property, the thread wait() joins on and the endpoint.  The steps of the
\* thread kickoff() starts are left to Spec: they read the handle and never
\* assign _control or config, so a started begin thread stays where it is.
NextCalls ==
    \/ Connect
    \/ Disconnect
    \/ Stop
    \/ EndRun
    \/ ConfigureWith(FewConfigureArgs)
    \/ Kickoff
    \/ Wait
    \/ WaitReturn
    \/ WaitTimeout
    \/ FinishThread
    \/ ReadState
    \/ EndpointChange

SpecCalls == Init /\ [][NextCalls]_vars

\* kickoff() and the thread it starts, on a Daq that is configured and attached to
\* or detached from a plan while the thread runs.  Begin threads write nothing
\* another thread reads, so here kickoff() is called once the threads started
\* before have ended; Next has it at any time.
NextBegin ==
    \/ ConfigureWith(FewConfigureArgs)
    \/ (NoLiveThread /\ Kickoff)
    \/ InterpretWith(RunCommands)
    \/ BeginThreadArgs
    \/ BeginThreadPoll
    \/ BeginThreadCheck
    \/ BeginThreadCall
    \/ EndpointChange

SpecBegin == Init /\ [][NextBegin]_vars

\* kickoff() without arguments and the thread it starts, with disconnect(); the
\* thread's tests of the state read nothing of the configuration.  The threads
\* are scheduled by the operating system: a thread that can take a step takes it
\* in the end.
NextPoll ==
    \/ Disconnect
    \/ ConfigureWith(OneConfigureArg)
    \/ (NoLiveThread /\ KickoffWith({NoOverrides}))
    \/ BeginThreadArgs
    \/ BeginThreadPoll
    \/ BeginThreadCheck
    \/ BeginThreadCall
    \/ EndpointChange

ThreadsRun ==
    /\ WF_vars(BeginThreadArgs)
    /\ WF_vars(BeginThreadPoll)
    /\ WF_vars(BeginThreadCheck)
    /\ WF_vars(BeginThreadCall)

SpecPoll == Init /\ [][NextPoll]_vars /\ ThreadsRun

\* The end of a flight: complete(), collect(), describe_collect() and the thread
\* complete() starts.  As in NextBegin a thread is started once the threads
\* started before have ended.
NextFlyer ==
    \/ Disconnect
    \/ ConfigureWith(FewConfigureArgs)
    \/ (NoLiveThread /\ Complete)
    \/ Collect
    \/ DescribeCollect
    \/ FinishThread
    \/ EndpointChange

SpecFlyer == Init /\ [][NextFlyer]_vars

\* The Daq in a plan: the interpreter, the plan helpers, and the thread that the
\* interpreter starts through resume() and waits for.  The Daq is connected by
\* configure().
NextPlan ==
    \/ ConfigureWith(FewConfigureArgs)
    \/ (NoLiveThread /\ InterpretMessage)
    \/ DaqWrapper
    \/ CalibCycle
    \/ WaitReturn
    \/ WaitTimeout
    \/ BeginThreadArgs
    \/ BeginThreadPoll
    \/ BeginThreadCheck
    \/ BeginThreadCall
    \/ EndpointChange

SpecPlan == Init /\ [][NextPlan]_vars

\* Every operation, and the threads.
\* The threads of kickoff(), complete() and wait() side by side: a begin thread
\* and an end thread take their steps in any order.
NextThreads ==
    \/ ConfigureWith(OneConfigureArg)
    \/ KickoffBeside
    \/ CompleteBeside
    \/ WaitBeside
    \/ WaitReturn
    \/ WaitTimeout
    \/ BeginThreadArgs
    \/ BeginThreadPoll
    \/ BeginThreadCheck
    \/ BeginThreadCall
    \/ FinishThread
    \/ EndpointChange

SpecThreads == Init /\ [][NextThreads]_vars

\* The interpreter, pause() and resume() on a Daq configured in each of the three
\* modes.
NextModes ==
    \/ ConfigureWith(ModeConfigureArgs)
    \/ (NoLiveThread /\ InterpretMessage)
    \/ Pause
    \/ (NoLiveThread /\ Resume)
    \/ WaitReturn
    \/ WaitTimeout
    \/ BeginThreadArgs
    \/ BeginThreadPoll
    \/ BeginThreadCheck
    \/ BeginThreadCall
    \/ EndpointChange

SpecModes == Init /\ [][NextModes]_vars

\* Every operation that assigns the handle or the stored configuration, and those
\* that go through them: the threads they start assign neither and are left
\* where they are, a caller blocked in begin() leaving at its timeout.
NextStored ==
    \/ Connect
    \/ Disconnect
    \/ Stop
    \/ EndRun
    \/ ConfigureWith(FewConfigureArgs)
    \/ KickoffWith({NoOverrides})
    \/ Begin
    \/ Complete
    \/ InterpretMessage
    \/ Del
    \/ WaitTimeout
    \/ EndpointChange

SpecStored == Init /\ [][NextStored]_vars

Next ==
    \/ Connect
    \/ Disconnect
    \/ Stop
    \/ EndRun
    \/ ConfigureWith(FewConfigureArgs)
    \/ Kickoff
    \/ Wait
    \/ WaitReturn
    \/ WaitTimeout
    \/ BeginThreadArgs
    \/ BeginThreadPoll
    \/ BeginThreadCheck
    \/ BeginThreadCall
    \/ FinishThread
    \/ InterpretMessage
    \/ Complete
    \/ Collect
    \/ DescribeCollect
    \/ DaqWrapper
    \/ CalibCycle
    \/ Del
    \/ DescribeConfiguration
    \/ Pause
    \/ Resume
    \/ Begin
    \/ ReadState
    \/ EndpointChange

Spec == Init /\ [][Next]_vars

\* ---------------------------------------------------------------- claims

\* C1: immediately after a disconnect() that returned, the handle is gone, the
\* state reads 'Disconnected' whatever the endpoint reported before (and still
\* reports), and read_configuration() returns the default configuration.
C1_DisconnectLeavesDisconnected ==
    (last.op = "disconnect" /\ last.err = NoErr) =>
        /\ control = None
        /\ StateNow = "Disconnected"
        /\ read_configuration =
             [events |-> None, duration |-> None, use_l3t |-> FALSE,
              record |-> FALSE, controls |-> None, mode |-> MEnum("on")]

\* A disconnect() of a connected, configured controller whose endpoint reported
\* (and still reports) Running has returned.
C1_Witness ==
    /\ last.op = "disconnect" /\ last.err = NoErr
    /\ last.calls = <<"disconnect">>
    /\ last.pre.configured /\ last.pre.state = "Running" /\ epState = 4

\* C2: when the endpoint's disconnect call raises inside disconnect(), the handle
\* is cleared and the cached configuration reset all the same, so that the
\* controller is 'Disconnected' afterwards.
C2_FailedDisconnectStillClears ==
    (last.op = "disconnect" /\ Has(last.raised, "disconnect")) =>
        (control = None /\ config = None /\ StateNow = "Disconnected")

\* C3: a connect() on a connected controller builds no handle and issues no
\* endpoint call: the handle stays the one it was, no pydaq.Control is constructed,
\* and the only thing reported is the 'already connected' notice.
C3_ConnectIdempotent ==
    [][(last'.op = "connect" /\ control # None) =>
          /\ control' = control
          /\ created' = created
          /\ last'.calls = <<>>
          /\ last'.err = NoErr
          /\ last'.log = <<"Connect requested, but already connected to DAQ">>]_vars

\* A second connect() has run on a controller the first one connected.
C3_Witness ==
    /\ last.op = "connect" /\ last.pre.connected
    /\ control = Some(1) /\ created = 1

\* C4: a connect() in which the constructor or the handle's connect call raised
\* raises nothing itself and leaves no handle: connected is false and the state
\* reads 'Disconnected'.
C4_FailedConnectLeavesNoHandle ==
    (last.op = "connect" /\ last.raised # <<>>) =>
        (last.err = NoErr /\ control = None /\ ~connected
         /\ StateNow = "Disconnected")

\* A connect() built a handle whose connect call raised.
C4_Witness ==
    /\ last.op = "connect" /\ last.raised = <<"connect">>
    /\ last.calls = <<"Control", "connect">>
    /\ created > 0

\* C5: wait, stop, end_run, kickoff and configure called on a controller that is
\* not connected call connect() exactly once.  When that leaves the controller
\* without a handle the call raises 'Could not connect to DAQ' and its body does
\* not run: no endpoint call beyond the connect attempt, no thread, the stored
\* configuration untouched.  When it connects, the body runs: the call goes on to
\* the method's first endpoint call (kickoff with a refused duration raising the
\* duration error first).
C5_CheckConnectGuardsTheBody ==
    [][(/\ last'.op \in {"wait", "stop", "end_run", "kickoff", "configure"}
        /\ control = None)
       =>
       /\ last'.connects = 1
       /\ IF control' = None
          THEN /\ last'.err = "RuntimeError: Could not connect to DAQ"
               /\ last'.calls \in {<<"Control">>, <<"Control", "connect">>}
               /\ config' = config
               /\ threads' = threads
               /\ blocked' = None
          ELSE /\ last'.err # "RuntimeError: Could not connect to DAQ"
               /\ SubSeq(last'.calls, 1, 2) = <<"Control", "connect">>
               /\ ~Has(last'.raised, "Control") /\ ~Has(last'.raised, "connect")
               /\ \/ /\ Len(last'.calls) > 2
                     /\ last'.calls[3] =
                          (IF last'.op \in {"stop", "end_run"} THEN "stop"
                           ELSE "state")
                     /\ ~Has(SubSeq(last'.calls, 3, Len(last'.calls)), "Control")
                  \/ /\ last'.op = "kickoff"
                     /\ last'.args[1].duration = Some(5)
                     /\ last'.err = DurationError]_vars

\* end_run() on a controller that is not connected built a handle whose connect
\* call raised, and raised the connection error.
C5_Witness ==
    /\ last.op = "end_run" /\ ~last.pre.connected
    /\ last.raised = <<"connect">>
    /\ last.err = "RuntimeError: Could not connect to DAQ"

\* C6: a read of state on a connected controller queries the endpoint once and
\* returns the name of the endpoint's state at that moment (0 Disconnected,
\* 1 Connected, 2 Configured, 3 Open, 4 Running); on a controller that is not
\* connected it returns 'Disconnected' and queries nothing.
C6_StateFollowsEndpoint ==
    last.op = "state" =>
        IF last.pre.connected
        THEN /\ last.calls = <<"state">>
             /\ last.ret = Some(CASE epState = 0 -> "Disconnected"
                                  [] epState = 1 -> "Connected"
                                  [] epState = 2 -> "Configured"
                                  [] epState = 3 -> "Open"
                                  [] epState = 4 -> "Running")
        ELSE last.calls = <<>> /\ last.ret = Some("Disconnected")

\* A read of state on a connected controller returned 'Running'.
C6_Witness ==
    /\ last.op = "state" /\ last.pre.connected
    /\ last.ret = Some("Running")

\* C7: a configure() that finds the endpoint Open or Running raises the error
\* naming that state, issues no endpoint configure call and leaves the stored
\* configuration as it was; the endpoint configure call is reached from Connected
\* or Configured only.
C7_ConfigureOnlyFromConnectedOrConfigured ==
    [][last'.op = "configure" =>
          /\ (control' # None /\ epState \in {3, 4}) =>
                /\ last'.err =
                     (IF epState = 3
                      THEN "RuntimeError: Cannot configure from state Open!"
                      ELSE "RuntimeError: Cannot configure from state Running!")
                /\ ~Has(last'.calls, "configure")
                /\ config' = config
          /\ Has(last'.calls, "configure") => epState \in {1, 2}]_vars

\* A configure() of a configured controller was refused because the endpoint was
\* Running.
C7_Witness ==
    /\ last.op = "configure"
    /\ last.err = "RuntimeError: Cannot configure from state Running!"
    /\ config # None

\* C8: a configure() whose duration is given and below one second fails before it
\* made any endpoint call; one whose duration is at least one second (called with
\* a mode name or no mode, the endpoint Connected or Configured) passes the
\* duration check and reaches the endpoint configure call.
C8_DurationCheckedBeforeAnyEndpointCall ==
    last.op = "configure" =>
        LET a == last.args[1] IN
        /\ (a.duration # None /\ a.duration[1] < 10) =>
              (last.err # NoErr /\ last.calls = <<>>)
        /\ (/\ a.duration # None /\ a.duration[1] >= 10
            /\ a.mode \in {MNone, MStr("on"), MStr("manual"), MStr("auto")}
            /\ control # None /\ epState \in {1, 2}) =>
              Has(last.calls, "configure")

\* C9: a configure() with valid arguments (mode given by name or omitted) that
\* finds the endpoint Connected or Configured, no endpoint call raising, returns
\* (configuration before, configuration after); the configuration after holds the
\* requested events, duration, record, use_l3t and controls and the resolved mode
\* (the previous one when mode is omitted), and read_configuration() returns it.
C9_ConfigureReturnsBeforeAndAfter ==
    [][(/\ last'.op = "configure"
        /\ control' # None /\ epState \in {1, 2}
        /\ last'.raised = <<>>
        /\ last'.args[1].duration \in {None, Some(20)}
        /\ last'.args[1].mode \in {MNone, MStr("on"), MStr("manual"), MStr("auto")})
       =>
       LET a == last'.args[1]
           before == ReadConfig(config)
           after == [events |-> a.events, duration |-> a.duration,
                     record |-> a.record, use_l3t |-> a.use_l3t,
                     controls |-> a.controls,
                     mode |-> IF a.mode = MNone THEN before.mode
                              ELSE MEnum(a.mode.name)]
       IN /\ last'.err = NoErr
          /\ last'.ret = Some(<<before, after>>)
          /\ config' = Some(after)]_vars

\* C10: when the endpoint configure call raises, configure() raises nothing, the
\* stored configuration becomes None whatever it was, read_configuration() returns
\* the default configuration, and the call returns (old, default).
C10_FailedConfigureResetsConfiguration ==
    [][(last'.op = "configure" /\ Has(last'.raised, "configure")) =>
          LET default == [events |-> None, duration |-> None, use_l3t |-> FALSE,
                          record |-> FALSE, controls |-> None,
                          mode |-> MEnum("on")]
          IN /\ last'.err = NoErr
             /\ config' = None
             /\ ReadConfig(config') = default
             /\ last'.ret = Some(<<ReadConfig(config), default>>)]_vars

\* The endpoint configure call raised on a controller that held a configuration.
C10_Witness ==
    /\ last.op = "configure" /\ last.raised = <<"configure">>
    /\ last.pre.configured
    /\ last.ret[1][1].events = Some(100)
    /\ last.args[1].events = None

\* The step in which begin thread i resolves its begin parameters, and the one in
\* which it calls control.begin().
Resolves(i) ==
    /\ i \in 1 .. Len(threads)
    /\ threads[i].kind = "begin" /\ threads[i].pc = "start"
    /\ threads'[i].pc = "poll"
IssuesBegin(i) ==
    /\ i \in 1 .. Len(threads)
    /\ threads[i].kind = "begin" /\ threads[i].pc = "begin"
    /\ threads'[i].pc # "begin"

\* The begin parameters of C11, for the arguments k of kickoff(), the stored
\* configuration cfg and the keyword arguments b resolved from them: the stored
\* count of 100 without overrides, 5 seconds for kickoff(duration=5), an explicit
\* count before the stored one, and events=0 when nothing gives a length.
Precedence(k, cfg, b) ==
    /\ (k.events = None /\ k.duration = None /\ cfg.events = Some(100)) =>
           /\ b.events = Some(100) \/ b.l3t_events = Some(100)
           /\ b.duration = None
    /\ (k.events = None /\ k.duration = Some(50) /\ cfg.events = Some(100)) =>
           /\ b.duration = Some(<<5, 0>>)
           /\ b.events = None /\ b.l3t_events = None
    /\ k.events # None =>
           /\ b.events = k.events \/ b.l3t_events = k.events
           /\ b.duration = None
    /\ (k.events = None /\ k.duration = None
          /\ cfg.events = None /\ cfg.duration = None) =>
           /\ b.events = Some(0)
           /\ b.l3t_events = None /\ b.duration = None

\* The special case of _begin_args: attached to a plan, mode not 'on', endpoint
\* not Open.
OpensRunOnly ==
    is_bluesky /\ read_configuration.mode # MEnum("on") /\ StateNow # "Open"

\* C11 as stated: whenever a begin thread resolves its parameters, the call's
\* arguments come before the stored configuration (events=100 stored and no
\* override gives 100 events, kickoff(duration=5) gives 5 seconds and no count,
\* nothing given gives events=0), and control.begin() receives what was resolved.
C11_Original_ExplicitBeforeStored ==
    [][\A i \in 1 .. MaxThreads :
          /\ Resolves(i) =>
                Precedence(threads[i].k, read_configuration, threads'[i].bargs)
          /\ IssuesBegin(i) =>
                /\ Has(last'.calls, "begin")
                /\ last'.args = Some(threads[i].bargs)]_vars

\* C11 amended: the same, except when the Daq is attached to a plan with a mode
\* other than 'on' and the endpoint is not Open as the parameters are resolved.
C11_ExplicitBeforeStored ==
    [][\A i \in 1 .. MaxThreads :
          /\ (Resolves(i) /\ ~OpensRunOnly) =>
                Precedence(threads[i].k, read_configuration, threads'[i].bargs)
          /\ IssuesBegin(i) =>
                /\ Has(last'.calls, "begin")
                /\ last'.args = Some(threads[i].bargs)]_vars

\* control.begin() was called with 5 seconds and no count while 100 events are
\* stored, on a Daq attached to a plan.
C11_Witness ==
    /\ last.op = "start_thread" /\ Has(last.calls, "begin")
    /\ last.args = Some([NoBeginArgs EXCEPT !.duration = Some(<<5, 0>>)])
    /\ read_configuration.events = Some(100)
    /\ is_bluesky

\* Begin thread i has not finished testing for readiness; it found the endpoint
\* ready; its Status reports failure.
Testing(i) ==
    /\ i \in 1 .. Len(threads)
    /\ threads[i].kind = "begin" /\ threads[i].pc \in {"start", "poll", "check"}
FoundReady(i) == i \in 1 .. Len(threads) /\ threads[i].pc = "begin"
Failed(i) == i \in 1 .. Len(threads) /\ threads[i].status = "failure"

\* C12: a begin thread whose readiness tests (the poll, and the test that follows
\* it at once) never find the endpoint Configured or Open marks its Status as
\* failed in the end, it does not stay pending; control.begin() is called only by
\* a thread that found one of these two states, never by one that failed; and
\* the kickoff() that started the thread raised nothing.
C12_PollTimeoutFailsTheStatus ==
    /\ \A i \in 1 .. MaxThreads : Testing(i) ~> (Failed(i) \/ FoundReady(i))
    /\ [][\A i \in 1 .. MaxThreads :
             /\ (~FoundReady(i) /\ FoundReady(i)') =>
                   StateNow \in {"Configured", "Open"}
             /\ (~Failed(i) /\ Failed(i)') =>
                   /\ threads[i].pc = "check"
                   /\ StateNow \notin {"Configured", "Open"}
                   /\ ~Has(last'.calls, "begin")
                   /\ threads'[i].pc = "done"
             /\ (last'.th = i /\ Has(last'.calls, "begin")) => FoundReady(i)
             /\ (Len(threads) < i /\ Len(threads') >= i) =>
                   /\ last'.err = NoErr
                   /\ threads'[i].status = "pending"]_vars

\* A thread ran through the poll without finding the endpoint ready, and failed
\* its Status.
C12_Witness ==
    /\ last.op = "start_thread" /\ last.calls = <<"state">>
    /\ Failed(last.th)
    /\ StateNow \notin {"Configured", "Open"}

\* The configuration has a length: an event count or a duration.
Bounded(cfg) == cfg.events # None \/ cfg.duration # None

\* How many times x occurs in seq.
Count(seq, x) == Cardinality({i \in 1 .. Len(seq) : seq[i] = x})

\* C13: complete() returns a completion handle without raising, having issued
\* the endpoint stop exactly when the stored configuration has neither an event
\* count nor a duration.
C13_CompleteStopsOnlyWhenUnbounded ==
    last.op = "complete" =>
        /\ last.err = NoErr
        /\ last.ret # None
        /\ Has(last.calls, "stop") <=> ~Bounded(read_configuration)

\* C14: once control.end() has returned or failed in its thread, the Status the
\* thread was made with reports success: it is neither pending nor failed.
C14_EndStatusAlwaysSucceeds ==
    \A i \in 1 .. Len(threads) :
        (threads[i].kind = "end" /\ threads[i].pc # "start") =>
            threads[i].status = "success"

IsRunCall(c) == c \in {"stop", "endrun"}

\* C15: collect() run to its end without error issued the endpoint stop and then
\* the endpoint endrun, once each, and yielded no event; it fails only when the
\* connect attempt or one of the two calls failed, and then issued no endrun
\* before a stop; describe_collect() returns the empty mapping and calls nothing.
C15_CollectEndsTheRun ==
    /\ last.op = "collect" =>
          /\ last.err = NoErr =>
                /\ SelectSeq(last.calls, IsRunCall) = <<"stop", "endrun">>
                /\ last.ret = Some(<<>>)
          /\ last.err # NoErr =>
                /\ last.raised # <<>>
                /\ SelectSeq(last.calls, IsRunCall)
                      \in {<<>>, <<"stop">>, <<"stop", "endrun">>}
    /\ last.op = "describe_collect" =>
          /\ last.err = NoErr /\ last.calls = <<>>
          /\ last.ret = Some(<<>>)

\* collect() on a Daq that was not connected: it connected, stopped and ended the
\* run.
C15_Witness ==
    /\ last.op = "collect" /\ last.err = NoErr
    /\ ~last.pre.connected
    /\ last.calls = <<"Control", "connect", "stop", "endrun">>

\* C16: the flag is false at first; a step changes it only by interpreting
\* open_run, which sets it, or close_run, which clears it, whatever the mode;
\* every other message and every other operation leaves it as it was.
C16_FlagFollowsRunMessages ==
    /\ ~is_bluesky
    /\ [][is_bluesky' =
             IF last'.op = "interpret_message" /\ last'.args = Some("open_run")
             THEN TRUE
             ELSE IF last'.op = "interpret_message"
                     /\ last'.args = Some("close_run")
                  THEN FALSE
                  ELSE is_bluesky]_vars

\* open_run was interpreted in a mode other than 'on', and the flag is set.
C16_Witness ==
    /\ last.op = "interpret_message" /\ last.args = Some("open_run")
    /\ read_configuration.mode # MEnum("on")
    /\ is_bluesky

\* C17: in mode 'on' and attached to a plan, interpreting create calls pause()
\* once and then resume() once, interpreting save waits (bounded configuration)
\* or pauses once (unbounded), and neither raises.
C17_OnModeStepCycle ==
    (/\ last.op = "interpret_message"
     /\ read_configuration.mode = MEnum("on")
     /\ is_bluesky) =>
        /\ last.args = Some("create") =>
              /\ last.err = NoErr
              /\ Len(last.log) >= 2
              /\ last.log[1] = "Daq.pause()" /\ last.log[2] = "Daq.resume()"
              /\ Count(last.log, "Daq.pause()") = 1
              /\ Count(last.log, "Daq.resume()") = 1
        /\ last.args = Some("save") =>
              /\ last.err = NoErr
              /\ Count(last.log, "Daq.pause()") =
                    (IF Bounded(read_configuration) THEN 0 ELSE 1)

\* C18: when the generator of daq_wrapper has finished, however it did, the
\* engine's msg_hook is None.
C18_HookRemovedWhenWrapperEnds ==
    last.op = "daq_wrapper" => msg_hook = None

\* The wrapper installed the hook, ended with an exception and the hook is gone.
C18_Witness ==
    /\ last.op = "daq_wrapper" /\ last.err # NoErr
    /\ last.log = <<"msg_hook = _interpret_message", "msg_hook = None">>
    /\ msg_hook = None

\* C19: the generator of daq_wrapper(plan), iterated to its end, emitted every
\* message of the plan and raised nothing.
C19_WrapperEmitsThePlan ==
    (last.op = "daq_wrapper" /\ last.args[1].how = "next") =>
        /\ last.err = NoErr
        /\ last.ret = Some(last.args[1].plan)

\* C20: calib_cycle() raises without emitting a message when the Daq is not
\* attached to a plan or its configuration has no length, and otherwise emits
\* one kickoff and then one complete and raises nothing.
C20_CalibCycleFailsFastOrRuns ==
    last.op = "calib_cycle" =>
        IF ~is_bluesky \/ ~Bounded(read_configuration)
        THEN last.err # NoErr /\ last.ret = Some(<<>>)
        ELSE last.err = NoErr /\ last.ret = Some(<<"kickoff", "complete">>)

\* C21: a teardown of a connected Daq whose endpoint has a run open or running
\* calls end_run(), and whatever end_run() did, the teardown goes on to
\* disconnect(); the teardown of a Daq that is not connected calls nothing on
\* the endpoint and raises nothing.
C21_TeardownEndsRunThenDisconnects ==
    last.op = "__del__" =>
        /\ last.pre.state \in {"Open", "Running"} => Has(last.calls, "stop")
        /\ last.pre.connected => Has(last.calls, "disconnect")
        /\ ~last.pre.connected => last.calls = <<>> /\ last.err = NoErr

\* C22: describe_configuration() raises nothing and returns the description of
\* every field, the shape of the controls being [number of controls, 2] when the
\* configuration has controls and None when it has none.
C22_DescribeConfigurationShapes ==
    last.op = "describe_configuration" =>
        /\ last.err = NoErr
        /\ last.ret # None
        /\ last.ret[1].controls.shape =
              IF last.pre.configured /\ read_configuration.controls # None
              THEN Some(<<Cardinality(read_configuration.controls[1]), 2>>)
              ELSE None

\* The forms of `mode` C23 calls valid, and the member of _mode_enum each stands
\* for.
ValidMode(m) ==
    \/ m.kind = "str" /\ IsModeName(m.name)
    \/ m.kind = "int" /\ m.num \in 0 .. 2
    \/ m.kind = "enum"
ModeMember(m) ==
    IF m.kind = "int" THEN MEnum(ModeNames[m.num + 1]) ELSE MEnum(m.name)

\* C23: a configure() that is given a mode and gets as far as resolving it (the
\* endpoint Connected or Configured, the duration accepted, no endpoint call
\* raising) stores the member the mode stands for when the mode is a mode name,
\* one of 0, 1, 2 or a member, and raises the invalid-mode ValueError for any
\* other value.
C23_EveryValidModeFormResolves ==
    [][(/\ last'.op = "configure"
        /\ control' # None /\ epState \in {1, 2}
        /\ last'.raised = <<>>
        /\ ~check_duration_raises(last'.args[1].duration)
        /\ last'.args[1].mode # MNone)
       =>
       LET m == last'.args[1].mode IN
       IF ValidMode(m)
       THEN /\ last'.err = NoErr
            /\ config' # None
            /\ config'[1].mode = ModeMember(m)
       ELSE last'.err = ModeValueError]_vars

\* C24: a configure() that raises for its duration or for its mode has issued no
\* endpoint configure call and leaves the stored configuration as it was.
C24_RejectedConfigureChangesNothing ==
    [][(/\ last'.op = "configure"
        /\ last'.err \in {DurationError, ModeValueError, ModeTypeError})
       => /\ ~Has(last'.calls, "configure")
          /\ config' = config]_vars

\* A configure() of a configured controller was refused for its mode, the stored
\* configuration still being the bounded one.
C24_Witness ==
    /\ last.op = "configure" /\ last.err = ModeValueError
    /\ last.pre.configured
    /\ config # None /\ config[1].events = Some(100)

\* C25: a kickoff() with an accepted duration on a connected Daq that holds no
\* configuration, the endpoint Connected and no endpoint call raising, issues the
\* endpoint configure call, leaves a configuration stored, starts the begin
\* thread and returns its Status.
C25_KickoffConfiguresFirst ==
    [][(/\ last'.op = "kickoff"
        /\ control # None /\ config = None /\ epState = 1
        /\ ~check_duration_raises(last'.args[1].duration)
        /\ last'.raised = <<>>)
       => /\ last'.err = NoErr
          /\ Has(last'.calls, "configure")
          /\ config' # None
          /\ Len(threads') = Len(threads) + 1
          /\ last'.ret = Some(Len(threads'))]_vars

\* C26: when a begin thread resolves its parameters on a Daq attached to a plan,
\* with a mode other than 'on' and the endpoint not Open, they are events=1, no
\* duration and no L3T count, whatever kickoff() was given and whatever is stored;
\* in any other case they are what the arguments and the stored configuration
\* give, which is never a count of 1 here; and control.begin() receives what was
\* resolved.
C26_OpenRunOverride ==
    [][\A i \in 1 .. Len(threads) :
          /\ Resolves(i) =>
                LET b == threads'[i].bargs IN
                IF OpensRunOnly
                THEN b.events = Some(1) /\ b.duration = None /\ b.l3t_events = None
                ELSE /\ b.events # Some(1) /\ b.l3t_events # Some(1)
                     /\ Precedence(threads[i].k, read_configuration, b)
          /\ IssuesBegin(i) => last'.args = Some(threads[i].bargs)]_vars

\* A begin thread resolved kickoff(events=7, use_l3t=True) to one event and no L3T
\* count, the Daq attached to a plan in mode 'manual'.
C26_Witness ==
    \E i \in 1 .. Len(threads) :
        /\ last.op = "start_thread" /\ last.th = i
        /\ threads[i].pc = "poll"
        /\ threads[i].k.events = Some(7)
        /\ threads[i].bargs.events = Some(1)
        /\ threads[i].bargs.l3t_events = None
        /\ is_bluesky /\ read_configuration.mode = MEnum("manual")

\* C27: a begin thread that has ended has resolved its Status, to failure when
\* control.begin() raised: no begin thread ends with its Status pending.
C27_BeginFailureReachesTheStatus ==
    \A i \in 1 .. Len(threads) :
        (threads[i].kind = "begin" /\ threads[i].pc \in {"done", "dead"}) =>
            /\ threads[i].status # "pending"
            /\ (last.op = "start_thread" /\ last.th = i /\ Has(last.raised, "begin"))
                  => threads[i].status = "failure"

\* C28: once control.begin() has raised in a begin thread, no configuration is
\* stored and read_configuration() returns the default configuration.
C28_FailedBeginResetsConfiguration ==
    (last.op = "start_thread" /\ Has(last.raised, "begin")) =>
        config = None /\ read_configuration = default_config

\* C29: the Status of a thread changes only from pending, only in a step of that
\* thread (start_thread for a Status of kickoff(), finish_thread for one of
\* complete() or wait()) and only while the thread has not ended; a Status is
\* pending when it is created, and none is dropped.
C29_StatusResolvedOnceByItsThread ==
    [][/\ Len(threads') >= Len(threads)
       /\ \A i \in 1 .. Len(threads') :
             IF i > Len(threads) THEN threads'[i].status = "pending"
             ELSE threads'[i].status # threads[i].status =>
                    /\ threads[i].status = "pending"
                    /\ threads[i].pc \notin {"done", "dead"}
                    /\ last'.th = i
                    /\ last'.op = (IF threads[i].kind = "begin"
                                   THEN "start_thread" ELSE "finish_thread")]_vars

\* An end thread resolved its Status while a begin thread started before it was
\* between its poll and its call of control.begin(), its own Status pending.
C29_Witness ==
    \E i, j \in 1 .. Len(threads) :
        /\ i < j
        /\ threads[i].kind = "begin" /\ threads[i].pc = "begin"
        /\ threads[i].status = "pending"
        /\ threads[j].kind = "end" /\ threads[j].status = "success"
        /\ last.op = "finish_thread" /\ last.th = j

\* C30: interpreting a save message on a connected Daq whose stored mode is 'on',
\* no endpoint call raising, raises nothing; it goes into wait() and not into
\* pause() when the configuration has an event count or a duration, and into
\* pause() once, blocking on no Status, when it has neither.
C30_SaveWaitsOrPauses ==
    [][(/\ last'.op = "interpret_message" /\ last'.args = Some("save")
        /\ ReadConfig(config).mode = MEnum("on")
        /\ control # None /\ last'.raised = <<>>)
       => /\ last'.err = NoErr
          /\ Has(last'.calls, "state")
          /\ IF Bounded(ReadConfig(config))
             THEN Count(last'.log, "Daq.pause()") = 0
             ELSE Count(last'.log, "Daq.pause()") = 1 /\ blocked' = None]_vars

\* What of the controller a caller can see: the handle, the stored configuration,
\* the plan flag, the hook, the threads and what the caller waits on.
Controller == <<control, config, created, is_bluesky, msg_hook, threads, blocked>>

StartsBegin ==
    /\ Len(threads') = Len(threads) + 1
    /\ threads'[Len(threads')] = BeginThread(control, NoOverrides)
    /\ blocked' = Some([th |-> Len(threads'), timeout |-> Some(BEGIN_TIMEOUT)])
NoOp ==
    /\ last'.err = NoErr
    /\ last'.connects = 0
    /\ \A n \in 1 .. Len(last'.calls) : last'.calls[n] = "state"
    /\ Controller' = Controller

\* pause(): control.stop() is called exactly when the state is Running, and from
\* any other state the call is a no-op.
PauseStopsWhenRunning ==
    last'.op = "pause" =>
        /\ Has(last'.calls, "stop") <=> StateNow = "Running"
        /\ StateNow # "Running" => NoOp

\* C32: pause() calls control.stop() exactly when the state is Running; resume()
\* calls begin() exactly when the state is Open, with no overrides, so that the
\* begin thread it starts on a configured Daq has none and the caller blocks on
\* its Status; from any other state, Disconnected included, each raises nothing,
\* connects nothing, calls neither stop nor begin and changes nothing.
C32_PauseAndResume ==
    [][/\ PauseStopsWhenRunning
       /\ last'.op = "resume" =>
             /\ Has(last'.log, "Daq.begin()") <=> StateNow = "Open"
             /\ Len(threads') # Len(threads) => StartsBegin
             /\ (StateNow = "Open" /\ configured) => StartsBegin
             /\ StateNow # "Open" => NoOp]_vars

\* resume() found a configured Daq's endpoint Open and started the begin thread.
C32_Witness ==
    /\ last.op = "resume" /\ last.pre.state = "Open" /\ last.pre.configured
    /\ blocked # None
    /\ threads[blocked[1].th].k = NoOverrides

\* C33: on a Daq attached to a plan whose stored configuration has a length,
\* calib_cycle() raises nothing and emits its kickoff before its complete, and
\* the begin parameters a kickoff with no overrides resolves to are the stored
\* count, or else the stored duration, in every mode and endpoint state.
C33_CalibCycleUsesTheConfiguration ==
    (is_bluesky /\ configured /\ Bounded(read_configuration)) =>
        LET cfg == read_configuration
            b == begin_args(cfg, configured, is_bluesky, StateNow, NoOverrides)
        IN
        /\ last.op = "calib_cycle" =>
              /\ last.err = NoErr
              /\ last.ret # None /\ Len(last.ret[1]) = 2
              /\ last.ret[1][1] = "kickoff" /\ last.ret[1][2] = "complete"
        /\ IF cfg.events # None
           THEN b.events = cfg.events \/ b.l3t_events = cfg.events
           ELSE b.duration # None /\ b.events = None /\ b.l3t_events = None

\* C34: a begin thread goes on to control.begin() only from a state query of its
\* own that returned Configured or Open, and control.begin() is called by no
\* other step than the one that follows; the Status of kickoff() becomes success
\* only in the step in which control.begin() was called and returned; and the
\* poll ends after at most BEGIN_TIMEOUT / dt state queries.
C34_BeginOnlyWhenReady ==
    [][/\ Has(last'.calls, "begin") =>
             /\ last'.op = "start_thread"
             /\ last'.th \in 1 .. Len(threads)
             /\ threads[last'.th].pc = "begin"
       /\ \A i \in 1 .. Len(threads) :
             threads[i].kind = "begin" =>
               /\ (threads[i].pc # "begin" /\ threads'[i].pc = "begin") =>
                     /\ last'.th = i /\ last'.calls = <<"state">>
                     /\ StateNow \in {"Configured", "Open"}
               /\ (threads[i].status # "success" /\ threads'[i].status = "success")
                     => /\ last'.th = i
                        /\ Has(last'.calls, "begin")
                        /\ ~Has(last'.raised, "begin")
               /\ threads[i].pc = "poll" /\ threads'[i] # threads[i] =>
                     /\ threads'[i].pc = "check"
                     /\ Len(last'.calls) <= BEGIN_TIMEOUT \div PollDt]_vars

\* A begin thread that found the endpoint ready called control.begin() and, the
\* call returning, marked its Status as succeeded.
C34_Witness ==
    /\ last.op = "start_thread" /\ last.calls = <<"begin">> /\ last.raised = <<>>
    /\ last.th \in 1 .. Len(threads)
    /\ threads[last.th].status = "success"
    /\ last.pre.state \in {"Configured", "Open"}

\* C35: a thread calls control.begin() or control.end() only on the handle the
\* Daq holds at that moment: never after disconnect() dropped the handle the
\* thread was given.
C35_NoCallOnATornDownHandle ==
    [][\A i \in 1 .. Len(threads) :
          (/\ last'.th = i
           /\ last'.op \in {"start_thread", "finish_thread"}
           /\ Has(last'.calls, "begin") \/ Has(last'.calls, "end"))
          => control # None /\ threads[i].ctl = control]_vars

\* C36: whenever a configuration is stored, the Daq holds a handle: configured
\* implies connected.
C36_ConfiguredImpliesConnected == configured => connected

\* A Daq that held a handle and a configuration has been torn down, and a Daq
\* whose endpoint refused the disconnect still holds both.
C36_Witness ==
    /\ last.op \in {"disconnect", "__del__"}
    /\ last.pre.connected /\ last.pre.configured
    /\ IF Has(last.raised, "disconnect") THEN configured /\ connected
       ELSE ~configured /\ ~connected

====
